---- MODULE Spec2Model ----
(***************************************************************************)
(* Model of cogProcessor.py (CLMS_NetCDF2COG): the per-band conversion     *)
(* loop of cogProcessor, the publish step _safeMove and the directory      *)
(* creation _safeMakeDirs, over an abstract file system.                   *)
(***************************************************************************)
EXTENDS Integers, Sequences, FiniteSets, TLC

VARIABLES
    cfg,           \* cogCfgDict: bandInfoList, overwriteExistingFiles, cogOverviews
    dirs,          \* which of outFolder / tmpFolder exist as directories
    fs,            \* the files: path -> file (NoFile when absent)
    fs0,           \* fs as it was when the current run of the job started
    pc,            \* position of cogProcessor
    idx,           \* index of the band the loop of cogProcessor is at
    tempFileList,  \* tempFileList of cogProcessor
    ci,            \* position of the cleanup loop in tempFileList
    status,        \* outcome of each band in the current run
    prevStatus,    \* outcome of each band in the previous run
    second,        \* TRUE in the second run of the same job configuration
    log,           \* steps executed in the current run, <<step, band index>>
    mv,            \* state of the _safeMove call
    mk,            \* state of the _safeMakeDirs call
    observed,      \* what a concurrent reader last saw at the destination of _safeMove
    nm,            \* a call of createCogFileName: its arguments and its result
    at,            \* a call of _convertFileAttributes / _convertBandAttributes
    pub            \* two pipeline instances in _safeMove on the same dst

vars == <<cfg, dirs, fs, fs0, pc, idx, tempFileList, ci, status, prevStatus,
          second, log, mv, mk, observed, nm, at, pub>>

\* the state of the calls that are modelled on their own
OtherVars == <<nm, at, pub>>

-----------------------------------------------------------------------------
(* Bounds *)

MaxBands == 2
MaxAttempts == 3

-----------------------------------------------------------------------------
(* Files and paths *)

None == "None"

\* variables of the source container (bandLst) and band names a job may ask for
bandLst == {"b1", "b2"}
InBands == {"b1", "b2", "bx"}
OutBands == {None, "b1"}

Names == InBands \cup (OutBands \ {None})
Kinds == {"base", "ovr", "cogTmp", "cog", "temp"}
Paths == Kinds \X Names

NoFile == [kind |-> "none", name |-> "", band |-> 0, run |-> 0,
           complete |-> FALSE, mode |-> "-"]

File(kind, name, band, run, complete, mode) ==
    [kind |-> kind, name |-> name, band |-> band, run |-> run,
     complete |-> complete, mode |-> mode]

isfile(f, p) == f[p] # NoFile

Write(f, p, file) == [f EXCEPT ![p] = file]

RemoveNoop(f, p) == f

Remove(f, p) == [f EXCEPT ![p] = NoFile]

\* the bytes of a file, whatever its permission bits
Content(file) == [kind |-> file.kind, name |-> file.name, band |-> file.band,
                  run |-> file.run, complete |-> file.complete]

DefaultMod == "0o644"
Mods == {"0o644", "0o600"}
Umask == "umask"

-----------------------------------------------------------------------------
(* _safeMove(src, dst, mod) *)

TmpFileInPlace(dst) == dst

TmpFileOf(dst) == <<"temp", dst[2]>>

MvIdle == [pc |-> "idle", src |-> <<"cogTmp", "b1">>, dst |-> <<"cog", "b1">>,
           mod |-> DefaultMod, dst0 |-> NoFile, src0 |-> NoFile, failedAt |-> "-"]

MvCall(src, dst, mod, f) ==
    [pc |-> "isfileTmp", src |-> src, dst |-> dst, mod |-> mod,
     dst0 |-> f[dst], src0 |-> f[src], failedAt |-> "-"]

MvGoto(l) == mv' = [mv EXCEPT !.pc = l]

JobVars == <<cfg, dirs, fs0, pc, idx, tempFileList, ci, status, prevStatus,
             second, log, mk, OtherVars>>

\* if os.path.isfile(tmpFile):
MvIsfileTmp ==
    /\ mv.pc = "isfileTmp"
    /\ MvGoto(IF isfile(fs, TmpFileOf(mv.dst)) THEN "removeTmp" ELSE "copy")
    /\ UNCHANGED <<fs, observed, JobVars>>

\* os.remove(tmpFile)
MvRemoveTmp ==
    /\ mv.pc = "removeTmp"
    /\ isfile(fs, TmpFileOf(mv.dst))
    /\ fs' = Remove(fs, TmpFileOf(mv.dst))
    /\ MvGoto("copy")
    /\ UNCHANGED <<observed, JobVars>>

\* shutil.copy(src, tmpFile): the target is created and then filled
MvCopyOpen ==
    /\ mv.pc = "copy"
    /\ isfile(fs, mv.src)
    /\ fs' = Write(fs, TmpFileOf(mv.dst),
                   [fs[mv.src] EXCEPT !.complete = FALSE, !.mode = Umask])
    /\ MvGoto("copyWrite")
    /\ UNCHANGED <<observed, JobVars>>

MvCopyWrite ==
    /\ mv.pc = "copyWrite"
    /\ isfile(fs, mv.src)
    /\ fs' = Write(fs, TmpFileOf(mv.dst), fs[mv.src])
    /\ MvGoto("isfileDst")
    /\ UNCHANGED <<observed, JobVars>>

\* if os.path.isfile(dst):
MvIsfileDst ==
    /\ mv.pc = "isfileDst"
    /\ MvGoto(IF isfile(fs, mv.dst) THEN "removeDst" ELSE "rename")
    /\ UNCHANGED <<fs, observed, JobVars>>

\* os.remove(dst)
MvRemoveDst ==
    /\ mv.pc = "removeDst"
    /\ isfile(fs, mv.dst)
    /\ fs' = Remove(fs, mv.dst)
    /\ MvGoto("rename")
    /\ UNCHANGED <<observed, JobVars>>

\* os.rename(tmpFile, dst): one atomic step
MvRename ==
    /\ mv.pc = "rename"
    /\ isfile(fs, TmpFileOf(mv.dst))
    /\ fs' = Write(Remove(fs, TmpFileOf(mv.dst)), mv.dst, fs[TmpFileOf(mv.dst)])
    /\ MvGoto("chmod")
    /\ UNCHANGED <<observed, JobVars>>

ChmodNoop(file, mod) == file

Chmod(file, mod) == [file EXCEPT !.mode = mod]

\* os.chmod(dst, mod)
MvChmod ==
    /\ mv.pc = "chmod"
    /\ isfile(fs, mv.dst)
    /\ fs' = Write(fs, mv.dst, Chmod(fs[mv.dst], mv.mod))
    /\ MvGoto("removeSrc")
    /\ UNCHANGED <<observed, JobVars>>

\* os.remove(src)
MvRemoveSrc ==
    /\ mv.pc = "removeSrc"
    /\ isfile(fs, mv.src)
    /\ fs' = Remove(fs, mv.src)
    /\ MvGoto("done")
    /\ UNCHANGED <<observed, JobVars>>

MvSteps == {"removeTmp", "copy", "copyWrite", "removeDst", "rename", "chmod",
            "removeSrc"}

\* a step of _safeMove raises (OSError): the step has no effect on the files
\* and the exception leaves _safeMove
MvFail ==
    /\ mv.pc \in MvSteps
    /\ mv' = [mv EXCEPT !.pc = "raised", !.failedAt = mv.pc]
    /\ UNCHANGED <<fs, observed, JobVars>>

MvRunning == mv.pc \notin {"idle", "done", "raised"}

\* another process reads dst while _safeMove runs
Reader ==
    /\ MvRunning
    /\ observed' = fs[mv.dst]
    /\ observed' # observed
    /\ UNCHANGED <<fs, mv, JobVars>>

SafeMove ==
    \/ MvIsfileTmp \/ MvRemoveTmp \/ MvCopyOpen \/ MvCopyWrite \/ MvIsfileDst
    \/ MvRemoveDst \/ MvRename \/ MvChmod \/ MvRemoveSrc \/ MvFail

-----------------------------------------------------------------------------
(* _safeMakeDirs(directory, mode, attempts) *)

DefaultAttempts == 3

MkIdle == [pc |-> "idle", directory |-> "out", attempts |-> 0, given |-> 0,
           tries |-> 0, failed |-> 0, sleeps |-> 0, lastExc |-> 0,
           raisedExc |-> 0, existsAtRaise |-> FALSE]

MkCall(directory, attempts) ==
    [MkIdle EXCEPT !.pc = "try", !.directory = directory,
                   !.attempts = attempts, !.given = attempts]

MkRunning == mk.pc \notin {"idle", "done", "raised"}

MkVars == <<cfg, fs, fs0, pc, idx, tempFileList, ci, status, prevStatus,
            second, log, mv, observed, OtherVars>>

\* os.makedirs(directory, mode=mode, exist_ok=True) succeeds; break
MkTryOk ==
    /\ mk.pc = "try"
    /\ dirs' = [dirs EXCEPT ![mk.directory] = TRUE]
    /\ mk' = [mk EXCEPT !.pc = "done", !.tries = @ + 1]
    /\ UNCHANGED MkVars

\* os.makedirs raises: the exception of this attempt is the current one
\* (with exist_ok=True it does not raise for a directory that is there)
MkTryFail ==
    /\ mk.pc = "try"
    /\ ~dirs[mk.directory]
    /\ mk' = [mk EXCEPT !.pc = "except", !.tries = @ + 1, !.failed = @ + 1,
                        !.lastExc = mk.tries + 1]
    /\ UNCHANGED <<dirs, MkVars>>

LastAttemptNever(attempts) == attempts = 0

LastAttempt(attempts) == attempts = 1

\* except: if attempts == 1: raise
MkExcept ==
    /\ mk.pc = "except"
    /\ mk' = IF LastAttempt(mk.attempts)
             THEN [mk EXCEPT !.pc = "raised", !.raisedExc = mk.lastExc,
                             !.existsAtRaise = dirs[mk.directory]]
             ELSE [mk EXCEPT !.pc = "sleep"]
    /\ UNCHANGED <<dirs, MkVars>>

\* time.sleep(random.uniform(0.1,5.0))
MkSleep ==
    /\ mk.pc = "sleep"
    /\ mk' = [mk EXCEPT !.pc = "isdir", !.sleeps = @ + 1]
    /\ UNCHANGED <<dirs, MkVars>>

IsdirIgnored(d) == FALSE

Isdir(d) == dirs[d]

\* if os.path.isdir(directory): break;  attempts -= 1
MkIsdir ==
    /\ mk.pc = "isdir"
    /\ mk' = IF Isdir(mk.directory)
             THEN [mk EXCEPT !.pc = "done"]
             ELSE [mk EXCEPT !.pc = "try", !.attempts = @ - 1]
    /\ UNCHANGED <<dirs, MkVars>>

\* another server creates the same directory while _safeMakeDirs runs
OtherMakesDir ==
    /\ MkRunning
    /\ ~dirs[mk.directory]
    /\ dirs' = [dirs EXCEPT ![mk.directory] = TRUE]
    /\ UNCHANGED <<mk, MkVars>>

SafeMakeDirs == MkTryOk \/ MkTryFail \/ MkExcept \/ MkSleep \/ MkIsdir

NoFiles == [p \in Paths |-> NoFile]

Idle == [pc |-> "idle"]

OthersIdle == nm = Idle /\ at = Idle /\ pub = Idle

EmptyCfg == [bandInfoList |-> <<>>, overwriteExistingFiles |-> FALSE,
             cogOverviews |-> FALSE, inFile |-> <<>>, hasTimeIndex |-> FALSE]

-----------------------------------------------------------------------------
(* Strings: sequences of one-character strings *)

MaxParts == 4
MaxSegs == 8

\* Python's None among strings
NoneStr == <<"<None>">>

\* the truth value of a str-or-None: None and '' are false
Truthy(x) == x # NoneStr /\ x # <<>>

RECURSIVE Join(_, _)
\* sep.join(list)
Join(list, sep) ==
    IF list = <<>> THEN <<>>
    ELSE IF Len(list) = 1 THEN list[1]
    ELSE list[1] \o <<sep>> \o Join(Tail(list), sep)

RECURSIVE SplitFrom(_, _, _, _)
SplitFrom(str, sep, i, cur) ==
    IF i > Len(str) THEN <<cur>>
    ELSE IF str[i] = sep THEN <<cur>> \o SplitFrom(str, sep, i + 1, <<>>)
    ELSE SplitFrom(str, sep, i + 1, Append(cur, str[i]))

\* str.split(sep)
Split(str, sep) == SplitFrom(str, sep, 1, <<>>)

\* os.path.splitext(name): the extension starts at the last dot, unless only
\* dots come before it
Splitext(name) ==
    LET dots == {i \in 1..Len(name) : name[i] = "."}
    IN  IF dots = {} THEN <<name, <<>>>>
        ELSE LET d == CHOOSE i \in dots : \A j \in dots : j <= i
             IN  IF \E j \in 1..(d - 1) : name[j] # "."
                 THEN <<SubSeq(name, 1, d - 1), SubSeq(name, d, Len(name))>>
                 ELSE <<name, <<>>>>

-----------------------------------------------------------------------------
(* _unpackNetCDFProductName, _packCOGProductName, createCogFileName *)

NoElements == [err |-> "none", project |-> <<>>, product |-> <<>>,
               productDate |-> <<>>, roi |-> <<>>, sensor |-> <<>>,
               version |-> <<>>, extention |-> <<>>,
               subProduct |-> NoneStr, timeIndex |-> NoneStr,
               parameter |-> NoneStr]

\* the if / elif chain on len(productParts) and hasTimeIndex
GrammarLenient(n, hasTimeIndex) ==
    CASE n = 1 -> "none"
      [] n = 2 /\ hasTimeIndex -> "time"
      [] n = 2 /\ ~hasTimeIndex -> "sub"
      [] n = 3 /\ hasTimeIndex -> "both"
      [] OTHER -> "error"

Grammar(n, hasTimeIndex) ==
    CASE n = 1 /\ ~hasTimeIndex -> "none"
      [] n = 2 /\ hasTimeIndex -> "time"
      [] n = 2 /\ ~hasTimeIndex -> "sub"
      [] n = 3 /\ hasTimeIndex -> "both"
      [] OTHER -> "error"

\* the highest index used on parts is parts[6]
NeededSegs == 7

\* parts[2] .. parts[6] exist
EnoughSegsExactly(parts) == Len(parts) = NeededSegs

EnoughSegs(parts) == Len(parts) >= NeededSegs

\* _unpackNetCDFProductName(productname, hasTimeIndex)
Unpack(productname, hasTimeIndex) ==
    LET se == Splitext(productname)
        parts == Split(se[1], "_")
    IN  IF ~EnoughSegs(parts)
        THEN [NoElements EXCEPT !.err = "IndexError"]
        ELSE LET productParts == Split(parts[3], "-")
                 g == Grammar(Len(productParts), hasTimeIndex)
             IN  IF g = "error"
                 THEN [NoElements EXCEPT !.err = "ValueError"]
                 ELSE [NoElements EXCEPT
                         !.project = Join(SubSeq(parts, 1, 2), "_"),
                         !.product = productParts[1],
                         !.productDate = parts[4],
                         !.roi = parts[5],
                         !.sensor = parts[6],
                         !.version = parts[7],
                         !.extention = se[2],
                         !.subProduct = IF g \in {"sub", "both"}
                                        THEN productParts[2] ELSE NoneStr,
                         !.timeIndex = IF g = "time" THEN productParts[2]
                                       ELSE IF g = "both" THEN productParts[3]
                                       ELSE NoneStr]

\* if prodElements["subProduct"]: / if prodElements["timeIndex"]:
PresentNotNone(x) == x # NoneStr

Present(x) == Truthy(x)

\* _packCOGProductName(prodElements)
Pack(e) ==
    LET tag1 == IF Present(e.subProduct)
                THEN e.product \o <<"-">> \o e.subProduct \o <<"-">> \o e.parameter
                ELSE e.product \o <<"-">> \o e.parameter
        productTag == IF Present(e.timeIndex)
                      THEN tag1 \o <<"-">> \o e.timeIndex
                      ELSE tag1
    IN  e.project \o <<"_">> \o productTag \o <<"_">> \o e.productDate
        \o <<"_">> \o e.roi \o <<"_">> \o e.sensor \o <<"_">> \o e.version
        \o <<".", "t", "i", "f", "f">>

\* if outBand: parameter = outBand else: parameter = inBand
ChooseInBand(inBand, outBand) == inBand

ChooseParameter(inBand, outBand) == IF Truthy(outBand) THEN outBand ELSE inBand

NmVars == <<cfg, dirs, fs, fs0, pc, idx, tempFileList, ci, status, prevStatus,
            second, log, mv, mk, observed, at, pub>>

\* prodElements = _unpackNetCDFProductName(inFile, hasTimeIndex)
NmUnpack ==
    /\ nm.pc = "call"
    /\ LET e == Unpack(nm.inFile, nm.hasTimeIndex)
       IN  nm' = [nm EXCEPT !.pc = IF e.err = "none" THEN "unpacked" ELSE "raised",
                            !.elements = e]
    /\ UNCHANGED NmVars

\* prodElements['parameter'] = ...; cogFile = _packCOGProductName(prodElements)
NmPack ==
    /\ nm.pc = "unpacked"
    /\ LET e == [nm.elements EXCEPT
                   !.parameter = ChooseParameter(nm.inBand, nm.outBand)]
       IN  nm' = [nm EXCEPT !.pc = "done", !.elements = e, !.cogFile = Pack(e)]
    /\ UNCHANGED NmVars

RECURSIVE ListsUpTo(_, _)
\* the non-empty lists over S of at most n elements
ListsUpTo(S, n) ==
    IF n = 1 THEN {<<x>> : x \in S}
    ELSE LET shorter == ListsUpTo(S, n - 1)
         IN  shorter \cup {Append(q, x) : q \in shorter, x \in S}

\* file names of 1..MaxSegs underscore segments whose third segment has
\* 1..MaxParts hyphen parts
InFiles ==
    {Join(SubSeq(<<<<"c">>, <<"g">>, Join(ps, "-"), date, <<"r">>, <<"s">>,
                   <<"V", ".", "1">>>> \o [i \in 1..(MaxSegs - 7) |-> <<"x">>],
                 1, k), "_") \o ext :
        ps \in ListsUpTo({<<>>, <<"P">>, <<"Q">>}, MaxParts), k \in 1..MaxSegs,
        ext \in {<<>>, <<".", "n", "c">>}, date \in {<<>>, <<"d">>}}

InitName ==
    /\ \E f \in InFiles, h \in BOOLEAN, o \in {NoneStr, <<>>, <<"O">>} :
          nm = [pc |-> "call", inFile |-> f, hasTimeIndex |-> h,
                inBand |-> <<"B">>, outBand |-> o,
                elements |-> NoElements, cogFile |-> <<>>]
    /\ at = Idle
    /\ pub = Idle
    /\ cfg = EmptyCfg
    /\ dirs = [d \in {"out", "tmp"} |-> TRUE]
    /\ fs = NoFiles
    /\ fs0 = fs
    /\ pc = "standalone"
    /\ idx = 0
    /\ tempFileList = <<>>
    /\ ci = 0
    /\ status = <<>>
    /\ prevStatus = <<>>
    /\ second = FALSE
    /\ log = <<>>
    /\ mv = MvIdle
    /\ mk = MkIdle
    /\ observed = NoFile

NextName == NmUnpack \/ NmPack

SpecName == InitName /\ [][NextName]_vars

-----------------------------------------------------------------------------
(* cogProcessor(cogCfgDict) *)

BandInfos == {[inBand |-> "b1", outBand |-> None],
              [inBand |-> "b2", outBand |-> None],
              [inBand |-> "b2", outBand |-> "b1"],
              [inBand |-> "bx", outBand |-> None]}

RECURSIVE SeqsUpTo(_, _)
SeqsUpTo(S, n) ==
    IF n = 0 THEN {<<>>}
    ELSE LET shorter == SeqsUpTo(S, n - 1)
         IN  shorter \cup {Append(q, x) : q \in shorter, x \in S}

bands == cfg.bandInfoList
NBands == Len(bands)

\* createCogFileName: the parameter slot is outBand when set, else inBand
Parameter(bandInfo) ==
    IF bandInfo.outBand # None THEN bandInfo.outBand ELSE bandInfo.inBand

cogPath(i) == <<"cog", Parameter(bands[i])>>
tiffFile(i) == <<"base", Parameter(bands[i])>>
ovrFile(i) == <<"ovr", Parameter(bands[i])>>
cogTmpFile(i) == <<"cogTmp", Parameter(bands[i])>>

Run == IF second THEN 2 ELSE 1

MovVars == <<mv, observed, OtherVars>>

\* if not os.path.isdir(outFolder): _safeMakeDirs(outFolder, mode=0o775)
JOutFolder ==
    /\ pc = "start"
    /\ IF dirs["out"]
       THEN pc' = "tmpFolder" /\ mk' = mk
       ELSE pc' = "mkOut" /\ mk' = MkCall("out", DefaultAttempts)
    /\ UNCHANGED <<cfg, dirs, fs, fs0, idx, tempFileList, ci, status,
                   prevStatus, second, log, MovVars>>

\* if not os.path.isdir(tmpFolder): _safeMakeDirs(tmpFolder, mode=0o775)
JTmpFolder ==
    /\ pc = "tmpFolder"
    /\ IF dirs["tmp"]
       THEN pc' = "check" /\ mk' = mk
       ELSE pc' = "mkTmp" /\ mk' = MkCall("tmp", DefaultAttempts)
    /\ UNCHANGED <<cfg, dirs, fs, fs0, idx, tempFileList, ci, status,
                   prevStatus, second, log, MovVars>>

\* _safeMakeDirs returned
JMkReturn ==
    /\ pc \in {"mkOut", "mkTmp"}
    /\ mk.pc = "done"
    /\ pc' = IF pc = "mkOut" THEN "tmpFolder" ELSE "check"
    /\ mk' = MkIdle
    /\ UNCHANGED <<cfg, dirs, fs, fs0, idx, tempFileList, ci, status,
                   prevStatus, second, log, MovVars>>

\* _safeMakeDirs raised: the exception leaves cogProcessor
JMkRaise ==
    /\ pc \in {"mkOut", "mkTmp"}
    /\ mk.pc = "raised"
    /\ pc' = "failedMkdir"
    /\ UNCHANGED <<cfg, dirs, fs, fs0, idx, tempFileList, ci, status,
                   prevStatus, second, log, mk, MovVars>>

MissingBandFirstOnly == NBands > 0 /\ bands[1].inBand \notin bandLst

\* for bandInfo in bandInfoList: if bandInfo['inBand'] in bandLst ... else raise
MissingBand == \E i \in 1..NBands : bands[i].inBand \notin bandLst

JCheckBands ==
    /\ pc = "check"
    /\ IF MissingBand
       THEN pc' = "failedNotFound" /\ idx' = idx
       ELSE pc' = "loop" /\ idx' = 1
    /\ UNCHANGED <<cfg, dirs, fs, fs0, tempFileList, ci, status,
                   prevStatus, second, log, mk, MovVars>>

\* createCogFileName(os.path.basename(inFile), ..., hasTimeIndex) raises
NameErrorNever == FALSE

NameError == Unpack(cfg.inFile, cfg.hasTimeIndex).err # "none"

\* the exception of createCogFileName leaves cogProcessor at the first band
JNameError ==
    /\ pc = "loop"
    /\ idx <= NBands
    /\ NameError
    /\ pc' = "failedName"
    /\ UNCHANGED <<cfg, dirs, fs, fs0, idx, tempFileList, ci, status,
                   prevStatus, second, log, mk, MovVars>>

SkipNever(i) == FALSE

\* if not overwriteExistingFiles and os.path.isfile(cogPath): continue
SkipCond(i) == ~cfg.overwriteExistingFiles /\ isfile(fs, cogPath(i))

JSkip ==
    /\ pc = "loop"
    /\ idx <= NBands
    /\ ~NameError
    /\ SkipCond(idx)
    /\ status' = [status EXCEPT ![idx] = "Skipped"]
    /\ idx' = idx + 1
    /\ UNCHANGED <<cfg, dirs, fs, fs0, pc, tempFileList, ci,
                   prevStatus, second, log, mk, MovVars>>

\* tiffFile = tempBasePath + '_base.tiff'; tempFileList.append(tiffFile)
JBegin ==
    /\ pc = "loop"
    /\ idx <= NBands
    /\ ~NameError
    /\ ~SkipCond(idx)
    /\ tempFileList' = Append(tempFileList, tiffFile(idx))
    /\ pc' = "extract"
    /\ UNCHANGED <<cfg, dirs, fs, fs0, idx, ci, status,
                   prevStatus, second, log, mk, MovVars>>

RaiseAndContinue(i) ==
    /\ pc' = "loop"
    /\ status' = [status EXCEPT ![i] = "Failed"]
    /\ idx' = i + 1

\* an exception raised inside the band loop is caught nowhere in cogProcessor
Raise(i) ==
    /\ pc' = "failedBand"
    /\ status' = [status EXCEPT ![i] = "Failed"]
    /\ idx' = i

Logged(step) == log' = Append(log, <<step, idx>>)

AfterExtractNoOverviews == "meta"

\* if cogCfgDict["cogOverviews"]: the overview commands come before the metadata
AfterExtract == IF cfg.cogOverviews THEN "clean" ELSE "meta"

\* _runShellCmd('gdal_translate -of GTIFF srcPath tiffFile')
JExtract ==
    /\ pc = "extract"
    /\ fs' = Write(fs, tiffFile(idx), File("base", tiffFile(idx)[2], idx, Run, TRUE, Umask))
    /\ Logged("extract")
    /\ pc' = AfterExtract
    /\ UNCHANGED <<cfg, dirs, fs0, idx, tempFileList, ci, status,
                   prevStatus, second, mk, MovVars>>

\* _runShellCmd('gdaladdo -clean tiffFile')
JCleanOverviews ==
    /\ pc = "clean"
    /\ fs' = Remove(fs, ovrFile(idx))
    /\ Logged("clean")
    /\ pc' = "build"
    /\ UNCHANGED <<cfg, dirs, fs0, idx, tempFileList, ci, status,
                   prevStatus, second, mk, MovVars>>

\* _runShellCmd('gdaladdo -ro ... tiffFile levels'); tempFileList.append(tiffFile+'.ovr')
JBuildOverviews ==
    /\ pc = "build"
    /\ fs' = Write(fs, ovrFile(idx), File("ovr", ovrFile(idx)[2], idx, Run, TRUE, Umask))
    /\ Logged("build")
    /\ tempFileList' = Append(tempFileList, ovrFile(idx))
    /\ pc' = "meta"
    /\ UNCHANGED <<cfg, dirs, fs0, idx, ci, status,
                   prevStatus, second, mk, MovVars>>

\* _convertFileAttributes, _convertBandAttributes, gdal.Open(tiffFile, GA_Update),
\* SetMetadata, SetDescription
JMetadata ==
    /\ pc = "meta"
    /\ isfile(fs, tiffFile(idx))
    /\ fs' = Write(fs, tiffFile(idx), [fs[tiffFile(idx)] EXCEPT !.kind = "baseMeta"])
    /\ Logged("meta")
    /\ pc' = "encode"
    /\ UNCHANGED <<cfg, dirs, fs0, idx, tempFileList, ci, status,
                   prevStatus, second, mk, MovVars>>

\* _runShellCmd('gdal_translate -of COG ... tiffFile cogTmpFile')
JEncode ==
    /\ pc = "encode"
    /\ fs' = Write(fs, cogTmpFile(idx), File("cog", cogTmpFile(idx)[2], idx, Run, TRUE, Umask))
    /\ Logged("encode")
    /\ pc' = "publish"
    /\ UNCHANGED <<cfg, dirs, fs0, idx, tempFileList, ci, status,
                   prevStatus, second, mk, MovVars>>

CmdSteps == {"extract", "clean", "build", "encode"}

\* the file a command writes
Target(step, i) ==
    CASE step = "extract" -> tiffFile(i)
      [] step = "clean" -> tiffFile(i)
      [] step = "build" -> ovrFile(i)
      [] step = "encode" -> cogTmpFile(i)

\* _runShellCmd: subprocess.CalledProcessError, logged and raised again; the
\* command may leave a partly written target behind
JCmdFail ==
    /\ pc \in CmdSteps
    /\ \/ fs' = fs
       \/ /\ pc # "clean"
          /\ fs' = Write(fs, Target(pc, idx),
                         File("partial", Target(pc, idx)[2], idx, Run, FALSE, Umask))
    /\ Logged(pc)
    /\ Raise(idx)
    /\ UNCHANGED <<cfg, dirs, fs0, tempFileList, ci,
                   prevStatus, second, mk, MovVars>>

\* the attribute conversion or the metadata update raises
JMetadataFail ==
    /\ pc = "meta"
    /\ Logged("meta")
    /\ Raise(idx)
    /\ UNCHANGED <<cfg, dirs, fs, fs0, tempFileList, ci,
                   prevStatus, second, mk, MovVars>>

\* _safeMove(cogTmpFile, cogPath)
JPublish ==
    /\ pc = "publish"
    /\ mv' = MvCall(cogTmpFile(idx), cogPath(idx), DefaultMod, fs)
    /\ Logged("move")
    /\ pc' = "moving"
    /\ UNCHANGED <<cfg, dirs, fs, fs0, idx, tempFileList, ci, status,
                   prevStatus, second, mk, observed, OtherVars>>

\* _safeMove returned: the band is published, on to the next band
JPublished ==
    /\ pc = "moving"
    /\ mv.pc = "done"
    /\ status' = [status EXCEPT ![idx] = "Published"]
    /\ idx' = idx + 1
    /\ pc' = "loop"
    /\ mv' = MvIdle
    /\ UNCHANGED <<cfg, dirs, fs, fs0, tempFileList, ci,
                   prevStatus, second, log, mk, observed, OtherVars>>

\* _safeMove raised
JPublishFail ==
    /\ pc = "moving"
    /\ mv.pc = "raised"
    /\ Raise(idx)
    /\ UNCHANGED <<cfg, dirs, fs, fs0, tempFileList, ci,
                   prevStatus, second, log, mk, MovVars>>

\* the band loop is over
JLoopEnd ==
    /\ pc = "loop"
    /\ idx > NBands
    /\ pc' = "cleanup"
    /\ ci' = 1
    /\ UNCHANGED <<cfg, dirs, fs, fs0, idx, tempFileList, status,
                   prevStatus, second, log, mk, MovVars>>

\* for tempFile in tempFileList: os.remove(tempFile)
JCleanup ==
    /\ pc = "cleanup"
    /\ ci <= Len(tempFileList)
    /\ IF isfile(fs, tempFileList[ci])
       THEN fs' = Remove(fs, tempFileList[ci]) /\ ci' = ci + 1 /\ pc' = pc
       ELSE fs' = fs /\ ci' = ci /\ pc' = "failedCleanup"
    /\ UNCHANGED <<cfg, dirs, fs0, idx, tempFileList, status,
                   prevStatus, second, log, mk, MovVars>>

JReturn ==
    /\ pc = "cleanup"
    /\ ci > Len(tempFileList)
    /\ pc' = "done"
    /\ UNCHANGED <<cfg, dirs, fs, fs0, idx, tempFileList, ci, status,
                   prevStatus, second, log, mk, MovVars>>

FailedPcs == {"failedMkdir", "failedNotFound", "failedName", "failedBand",
              "failedCleanup"}
Ended == pc = "done" \/ pc \in FailedPcs

Pending == [i \in 1..NBands |-> "Pending"]

\* the same job configuration is run again (__main__ invoked a second time)
Rerun ==
    /\ Ended
    /\ ~second
    /\ second' = TRUE
    /\ prevStatus' = status
    /\ status' = Pending
    /\ fs0' = fs
    /\ pc' = "start"
    /\ idx' = 0
    /\ tempFileList' = <<>>
    /\ ci' = 0
    /\ log' = <<>>
    /\ mv' = MvIdle
    /\ mk' = MkIdle
    /\ UNCHANGED <<cfg, dirs, fs, observed, OtherVars>>

OldCog(n) == File("cog", n, 0, 0, TRUE, DefaultMod)

\* a product name of 7 segments and one of 2
JobInFiles ==
    {Join(<<<<"c">>, <<"g">>, <<"P">>, <<"d">>, <<"r">>, <<"s">>, <<"V">>>>, "_")
     \o <<".", "n", "c">>,
     <<"c", "_", "g", ".", "n", "c">>}

Init ==
    /\ cfg \in [bandInfoList : SeqsUpTo(BandInfos, MaxBands),
                overwriteExistingFiles : BOOLEAN,
                cogOverviews : BOOLEAN,
                inFile : JobInFiles,
                hasTimeIndex : BOOLEAN]
    /\ dirs \in [{"out", "tmp"} -> BOOLEAN]
    /\ \E old \in SUBSET bandLst, stale \in BOOLEAN :
          /\ ~dirs["out"] => (old = {} /\ ~stale)
          /\ fs = [p \in Paths |->
                     IF p[1] = "cog" /\ p[2] \in old THEN OldCog(p[2])
                     ELSE IF p = <<"temp", "b1">> /\ stale
                          THEN File("cog", "b1", 0, 0, FALSE, Umask)
                     ELSE NoFile]
    /\ fs0 = fs
    /\ pc = "start"
    /\ idx = 0
    /\ tempFileList = <<>>
    /\ ci = 0
    /\ status = Pending
    /\ prevStatus = <<>>
    /\ second = FALSE
    /\ log = <<>>
    /\ mv = MvIdle
    /\ mk = MkIdle
    /\ observed = NoFile
    /\ OthersIdle

CogProcessor ==
    \/ JOutFolder \/ JTmpFolder \/ JMkReturn \/ JMkRaise \/ JCheckBands
    \/ JNameError \/ JSkip \/ JBegin \/ JExtract \/ JCleanOverviews \/ JBuildOverviews
    \/ JMetadata \/ JEncode \/ JCmdFail \/ JMetadataFail \/ JPublish
    \/ JPublished \/ JPublishFail \/ JLoopEnd \/ JCleanup \/ JReturn

Next == CogProcessor \/ SafeMakeDirs \/ OtherMakesDir \/ SafeMove \/ Rerun

Spec == Init /\ [][Next]_vars

\* _safeMove on its own: every state of dst and dst+'.temp' before the call
InitMove ==
    /\ cfg = EmptyCfg
    /\ dirs = [d \in {"out", "tmp"} |-> TRUE]
    /\ \E n \in bandLst, m \in Mods : \E
          old \in {NoFile, File("cog", n, 0, 0, TRUE, "0o644"),
                   File("cog", n, 0, 0, TRUE, "0o600")},
          stale \in {NoFile, File("cog", n, 0, 0, FALSE, Umask),
                     File("cog", n, 0, 0, TRUE, Umask)} :
          /\ fs = [NoFiles EXCEPT ![<<"cogTmp", n>>] = File("cog", n, 1, 1, TRUE, Umask),
                                  ![<<"cog", n>>] = old,
                                  ![<<"temp", n>>] = stale]
          /\ mv = MvCall(<<"cogTmp", n>>, <<"cog", n>>, m, fs)
          /\ observed = old
    /\ fs0 = fs
    /\ pc = "standalone"
    /\ idx = 0
    /\ tempFileList = <<>>
    /\ ci = 0
    /\ status = <<>>
    /\ prevStatus = <<>>
    /\ second = FALSE
    /\ log = <<>>
    /\ mk = MkIdle
    /\ OthersIdle

NextMove == SafeMove \/ Reader

SpecMove == InitMove /\ [][NextMove]_vars

\* _safeMakeDirs on its own: every number of attempts, both folders
InitDirs ==
    /\ cfg = EmptyCfg
    /\ dirs \in [{"out", "tmp"} -> BOOLEAN]
    /\ \E d \in {"out", "tmp"}, a \in 1..MaxAttempts : mk = MkCall(d, a)
    /\ fs = NoFiles
    /\ fs0 = fs
    /\ pc = "standalone"
    /\ idx = 0
    /\ tempFileList = <<>>
    /\ ci = 0
    /\ status = <<>>
    /\ prevStatus = <<>>
    /\ second = FALSE
    /\ log = <<>>
    /\ mv = MvIdle
    /\ observed = NoFile
    /\ OthersIdle

NextDirs == SafeMakeDirs \/ OtherMakesDir

SpecDirs == InitDirs /\ [][NextDirs]_vars

\* the process running _safeMakeDirs keeps running: the sleep is bounded
FairSpecDirs == SpecDirs /\ WF_vars(SafeMakeDirs)

-----------------------------------------------------------------------------
(* Two instances in _safeMove(src, dst) on the same dst, each with its own
   src.  A path names an inode; an open file keeps its inode when the path is
   removed or renamed. *)

Movers == {"A", "B"}

\* no file at the path
Absent == "absent"

\* the inode a mover's shutil.copy creates, the inode of a dst+'.temp' left
\* by an earlier run, the inode of the prior dst
Created(i) == IF i = "A" THEN "inoA" ELSE "inoB"

\* the bytes of a mover's src
SrcOf(i) == IF i = "A" THEN "srcA" ELSE "srcB"

\* open(tmpFile, 'wb') empties the file it opens
Truncated == "empty"

\* the bytes after a mover has written its whole src through its handle:
\* bytes another writer put there since the file was emptied may survive
WrittenNothing(data, i) == {data}

Written(data, i) ==
    IF data \in {Truncated, SrcOf(i)} THEN {SrcOf(i)} ELSE {SrcOf(i), "mixed"}

PubVars == <<cfg, dirs, fs, fs0, pc, idx, tempFileList, ci, status, prevStatus,
             second, log, mv, mk, observed, nm, at>>

PGoto(i, step) == pub' = [pub EXCEPT !.at[i] = step]

\* an operation on a path that names no file raises FileNotFoundError
PRaise(i) == pub' = [pub EXCEPT !.at[i] = "raised", !.failedAt[i] = pub.at[i]]

\* if os.path.isfile(tmpFile):
PIsfileTmp(i) ==
    /\ pub.at[i] = "isfileTmp"
    /\ PGoto(i, IF pub.tmp # Absent THEN "removeTmp" ELSE "copyOpen")
    /\ UNCHANGED PubVars

\* os.remove(tmpFile)
PRemoveTmp(i) ==
    /\ pub.at[i] = "removeTmp"
    /\ IF pub.tmp # Absent
       THEN pub' = [pub EXCEPT !.at[i] = "copyOpen", !.tmp = Absent]
       ELSE PRaise(i)
    /\ UNCHANGED PubVars

\* shutil.copy(src, tmpFile): open(tmpFile, 'wb') creates the file or empties
\* the one that is there
PCopyOpen(i) ==
    /\ pub.at[i] = "copyOpen"
    /\ LET ino == IF pub.tmp # Absent THEN pub.tmp ELSE Created(i)
       IN  pub' = [pub EXCEPT !.at[i] = "copyWrite", !.tmp = ino,
                              !.handle[i] = ino, !.data[ino] = Truncated]
    /\ UNCHANGED PubVars

\* shutil.copy(src, tmpFile): the bytes go to the open file, wherever its
\* path has gone
PCopyWrite(i) ==
    /\ pub.at[i] = "copyWrite"
    /\ \E d \in Written(pub.data[pub.handle[i]], i) :
          pub' = [pub EXCEPT !.at[i] = "copyMode", !.data[pub.handle[i]] = d]
    /\ UNCHANGED PubVars

\* shutil.copy(src, tmpFile): copymode() is a chmod of the path tmpFile
PCopyMode(i) ==
    /\ pub.at[i] = "copyMode"
    /\ IF pub.tmp # Absent THEN PGoto(i, "isfileDst") ELSE PRaise(i)
    /\ UNCHANGED PubVars

\* if os.path.isfile(dst):
PIsfileDst(i) ==
    /\ pub.at[i] = "isfileDst"
    /\ PGoto(i, IF pub.dst # Absent THEN "removeDst" ELSE "rename")
    /\ UNCHANGED PubVars

\* os.remove(dst)
PRemoveDst(i) ==
    /\ pub.at[i] = "removeDst"
    /\ IF pub.dst # Absent
       THEN pub' = [pub EXCEPT !.at[i] = "rename", !.dst = Absent]
       ELSE PRaise(i)
    /\ UNCHANGED PubVars

\* os.rename(tmpFile, dst)
Renamed(p, i) ==
    [p EXCEPT !.at[i] = "chmod", !.tmp = Absent, !.dst = p.tmp,
              !.order = Append(p.order, i)]

PRename(i) ==
    /\ pub.at[i] = "rename"
    /\ IF pub.tmp # Absent THEN pub' = Renamed(pub, i) ELSE PRaise(i)
    /\ UNCHANGED PubVars

\* os.chmod(dst, mod)
PChmod(i) ==
    /\ pub.at[i] = "chmod"
    /\ IF pub.dst # Absent THEN PGoto(i, "removeSrc") ELSE PRaise(i)
    /\ UNCHANGED PubVars

\* os.remove(src)
PRemoveSrc(i) ==
    /\ pub.at[i] = "removeSrc"
    /\ pub' = [pub EXCEPT !.at[i] = "done", !.src[i] = FALSE]
    /\ UNCHANGED PubVars

SafeMove2 ==
    \E i \in Movers :
        \/ PIsfileTmp(i) \/ PRemoveTmp(i) \/ PCopyOpen(i) \/ PCopyWrite(i)
        \/ PCopyMode(i) \/ PIsfileDst(i) \/ PRemoveDst(i) \/ PRename(i)
        \/ PChmod(i) \/ PRemoveSrc(i)

\* both calls at their first statement;
\* dst and dst+'.temp' as an earlier run may have left them
InitMove2 ==
    /\ \E t \in {Absent, "inoStale"}, d \in {Absent, "inoPrior"} :
          pub = [pc |-> "run",
                 at |-> [i \in Movers |-> "isfileTmp"],
                 failedAt |-> [i \in Movers |-> "-"],
                 handle |-> [i \in Movers |-> Absent],
                 src |-> [i \in Movers |-> TRUE],
                 tmp |-> t,
                 dst |-> d,
                 tmp0 |-> t,
                 dst0 |-> d,
                 data |-> [x \in {Created(i) : i \in Movers}
                                  \cup {"inoStale", "inoPrior"} |->
                             IF x = "inoStale" THEN "stale"
                             ELSE IF x = "inoPrior" THEN "prior"
                             ELSE Truncated],
                 order |-> <<>>]
    /\ nm = Idle
    /\ at = Idle
    /\ cfg = EmptyCfg
    /\ dirs = [d \in {"out", "tmp"} |-> TRUE]
    /\ fs = NoFiles
    /\ fs0 = fs
    /\ pc = "standalone"
    /\ idx = 0
    /\ tempFileList = <<>>
    /\ ci = 0
    /\ status = <<>>
    /\ prevStatus = <<>>
    /\ second = FALSE
    /\ log = <<>>
    /\ mv = MvIdle
    /\ mk = MkIdle
    /\ observed = NoFile

SpecMove2 == InitMove2 /\ [][SafeMove2]_vars

-----------------------------------------------------------------------------
(* _convertBandAttributes, _convertFileAttributes: an attribute mapping is
   the sequence of its <<key, value>> items in insertion order *)

MaxAttrs == 3

\* a str value, a numpy.ndarray of integers
Scalar(chars) == [kind |-> "scalar", str |-> chars, nums |-> <<>>]
NdArray(elems) == [kind |-> "ndarray", str |-> <<>>, nums |-> elems]

RECURSIVE Digits(_)
Digits(n) ==
    LET digit(d) == <<"0", "1", "2", "3", "4", "5", "6", "7", "8", "9">>[d + 1]
    IN  IF n < 10 THEN <<digit(n)>>
        ELSE Digits(n \div 10) \o <<digit(n % 10)>>

\* str(element)
ToStr(n) == IF n < 0 THEN <<"-">> \o Digits(0 - n) ELSE Digits(n)

RECURSIVE JoinWith(_, _)
\* listSeparator.join(strings)
JoinWith(strs, sep) ==
    IF strs = <<>> THEN <<>>
    ELSE IF Len(strs) = 1 THEN strs[1]
    ELSE strs[1] \o sep \o JoinWith(Tail(strs), sep)

\* the enclosure branch: wrapped, left as it is, or ValueError
EncloseLenient(lstStr, listEnclosure) ==
    IF Len(listEnclosure) = 2
    THEN [err |-> "none",
          str |-> <<listEnclosure[1]>> \o lstStr \o <<listEnclosure[2]>>]
    ELSE [err |-> "none", str |-> lstStr]

Enclose(lstStr, listEnclosure) ==
    IF Len(listEnclosure) = 2
    THEN [err |-> "none",
          str |-> <<listEnclosure[1]>> \o lstStr \o <<listEnclosure[2]>>]
    ELSE IF Len(listEnclosure) # 0
    THEN [err |-> "ValueError", str |-> <<>>]
    ELSE [err |-> "none", str |-> lstStr]

\* lstStr = listSeparator.join(map(str, value))
ListStr(value, listSeparator) ==
    JoinWith([k \in 1..Len(value.nums) |-> ToStr(value.nums[k])], listSeparator)

RECURSIVE ReplaceFirst(_, _)
\* str.replace(old, '', 1)
ReplaceFirst(str, old) ==
    IF Len(str) < Len(old) THEN str
    ELSE IF SubSeq(str, 1, Len(old)) = old
    THEN SubSeq(str, Len(old) + 1, Len(str))
    ELSE <<str[1]>> \o ReplaceFirst(Tail(str), old)

RECURSIVE Replace(_, _)
\* str.replace(old, ''): every occurrence, left to right
Replace(str, old) ==
    IF Len(str) < Len(old) THEN str
    ELSE IF SubSeq(str, 1, Len(old)) = old
    THEN Replace(SubSeq(str, Len(old) + 1, Len(str)), old)
    ELSE <<str[1]>> \o Replace(Tail(str), old)

\* 'c_gls_'
Prefix == <<"c", "_", "g", "l", "s", "_">>

\* __version__
Version == <<"1", ".", "0", ".", "0">>

\* _today(): the system date
Dates == {<<"d", "1">>, <<"d", "2">>}

RECURSIVE Fill(_, _, _)
\* history.replace(placeholder, by), a placeholder being one item of the text
Fill(text, placeholder, by) ==
    IF text = <<>> THEN <<>>
    ELSE (IF text[1] = placeholder THEN by ELSE <<text[1]>>)
         \o Fill(Tail(text), placeholder, by)

\* attributeDict["parent_identifier"]: the value, or KeyError
Lookup(dict, key) ==
    IF \E k \in 1..Len(dict) : dict[k][1] = key
    THEN [err |-> "none",
          value |-> dict[CHOOSE k \in 1..Len(dict) : dict[k][1] = key][2]]
    ELSE [err |-> "KeyError", value |-> Scalar(<<>>)]

AtVars == <<cfg, dirs, fs, fs0, pc, idx, tempFileList, ci, status, prevStatus,
            second, log, mv, mk, observed, nm, pub>>

AtNext(value) ==
    at' = [at EXCEPT !.i = at.i + 1,
                     !.metadata = Append(at.metadata, <<at.attributeDict[at.i][1], value>>)]

AtRaise(e) == at' = [at EXCEPT !.pc = "raised", !.err = e]

\* one pass of the loop of _convertBandAttributes
AtBandItem ==
    /\ at.pc = "loop"
    /\ at.fn = "band"
    /\ at.i <= Len(at.attributeDict)
    /\ LET key == at.attributeDict[at.i][1]
           value == at.attributeDict[at.i][2]
           e == Enclose(ListStr(value, at.listSeparator), at.listEnclosure)
       IN  IF key \in at.removeAttributeLst
           THEN at' = [at EXCEPT !.i = at.i + 1]
           ELSE IF value.kind = "ndarray"
           THEN IF e.err = "none" THEN AtNext(Scalar(e.str)) ELSE AtRaise(e.err)
           ELSE AtNext(value)
    /\ UNCHANGED AtVars

\* one pass of the loop of _convertFileAttributes
AtFileItem ==
    /\ at.pc = "loop"
    /\ at.fn = "file"
    /\ at.i <= Len(at.attributeDict)
    /\ LET key == at.attributeDict[at.i][1]
           value == at.attributeDict[at.i][2]
           parent == Lookup(at.attributeDict, "parent_identifier")
           id == Replace(Splitext(at.filename)[1], Prefix)
       IN  IF key \in at.removeAttributeLst
           THEN at' = [at EXCEPT !.i = at.i + 1]
           ELSE IF key = "history"
           THEN \E today \in Dates :
                   AtNext(Scalar(value.str \o <<"\n">>
                          \o Fill(Fill(at.history, "<processDateISO>", today),
                                  "<version>", Version)))
           ELSE IF key = "identifier"
           THEN IF parent.err = "none"
                THEN AtNext(Scalar(parent.value.str \o <<":">> \o id))
                ELSE AtRaise(parent.err)
           ELSE AtNext(value)
    /\ UNCHANGED AtVars

\* return metadata
AtReturn ==
    /\ at.pc = "loop"
    /\ at.i > Len(at.attributeDict)
    /\ at' = [at EXCEPT !.pc = "returned"]
    /\ UNCHANGED AtVars

RECURSIVE Arrangements(_, _)
\* the sequences of at most n distinct elements of S
Arrangements(S, n) ==
    IF n = 0 THEN {<<>>}
    ELSE LET shorter == Arrangements(S, n - 1)
         IN  shorter \cup {Append(q, x) : q \in {r \in shorter : Len(r) = n - 1},
                                          x \in S}

KeyLists(S) ==
    {q \in Arrangements(S, MaxAttrs) :
        \A a, b \in 1..Len(q) : a # b => q[a] # q[b]}

BandKeys == {"units", "flag_values", "valid_range"}
BandValues == {Scalar(<<"m">>), NdArray(<<1, 12>>), NdArray(<<0 - 3>>)}

FileKeys == {"title", "history", "identifier", "parent_identifier"}
FileValue(key) == Scalar(<<key>>)

\* file names: 'c_gls_' in front, absent, twice, in the middle
FileNames == {<<Prefix, <<"x">>>>, <<<<"x">>>>, <<Prefix, Prefix, <<"x">>>>,
              <<<<"x">>, Prefix, <<"V", ".", "1">>>>}

RECURSIVE Concat(_)
Concat(items) == IF items = <<>> THEN <<>> ELSE items[1] \o Concat(Tail(items))

AtCall(fn, dict, removed, sep, encl, items) ==
    [pc |-> "loop", fn |-> fn, attributeDict |-> dict,
     removeAttributeLst |-> removed, listSeparator |-> sep,
     listEnclosure |-> encl, history |-> <<"v", "<version>", " ", "<processDateISO>">>,
     filename |-> Concat(items) \o <<".", "t", "i", "f", "f">>,
     items |-> items, i |-> 1, metadata |-> <<>>, err |-> "none"]

InitAttrs ==
    /\ \/ \E keys \in KeyLists(BandKeys), removed \in SUBSET BandKeys,
             sep \in {<<",">>, <<",", " ">>},
             encl \in {<<>>, <<"[">>, <<"[", "]">>, <<"(", "|", ")">>} :
             \E values \in [1..Len(keys) -> BandValues] :
                at = AtCall("band", [k \in 1..Len(keys) |-> <<keys[k], values[k]>>],
                            removed, sep, encl, <<<<"x">>>>)
       \/ \E keys \in KeyLists(FileKeys), removed \in SUBSET FileKeys,
             items \in FileNames :
             at = AtCall("file",
                         [k \in 1..Len(keys) |-> <<keys[k], FileValue(keys[k])>>],
                         removed, <<",">>, <<>>, items)
    /\ nm = Idle
    /\ pub = Idle
    /\ cfg = EmptyCfg
    /\ dirs = [d \in {"out", "tmp"} |-> TRUE]
    /\ fs = NoFiles
    /\ fs0 = fs
    /\ pc = "standalone"
    /\ idx = 0
    /\ tempFileList = <<>>
    /\ ci = 0
    /\ status = <<>>
    /\ prevStatus = <<>>
    /\ second = FALSE
    /\ log = <<>>
    /\ mv = MvIdle
    /\ mk = MkIdle
    /\ observed = NoFile

NextAttrs == AtBandItem \/ AtFileItem \/ AtReturn

SpecAttrs == InitAttrs /\ [][NextAttrs]_vars

-----------------------------------------------------------------------------
(* The claims *)

Terminal == {"Published", "Skipped", "Failed"}
StepsOfBand(i) == {k \in 1..Len(log) : log[k][2] = i}
CommandsRun == {k \in 1..Len(log) : log[k][1] \in CmdSteps}
Recorded == {tempFileList[k] : k \in 1..Len(tempFileList)}

\* C1 (as stated): when a command or the publish step fails in band i, band i
\* alone ends Failed and every later band still reaches Published, Skipped or
\* Failed.
C1_LaterBandsStillProcessed ==
    Ended => \A i \in 1..NBands : status[i] = "Failed" =>
                \A j \in (i + 1)..NBands : status[j] \in Terminal

\* C1 (amended): a failure of a command, of the metadata step or of the publish
\* step in band i ends the job at once: band i is Failed, the bands before it
\* keep their Published or Skipped outcome, and no later band is attempted.
C1_FailureEndsJob ==
    \A i \in 1..NBands : status[i] = "Failed" =>
        /\ pc = "failedBand"
        /\ idx = i
        /\ \A j \in 1..(i - 1) : status[j] \in {"Published", "Skipped"}
        /\ \A j \in (i + 1)..NBands : status[j] = "Pending" /\ StepsOfBand(j) = {}

C1_Witness ==
    /\ NBands = 2
    /\ status[1] = "Failed"
    /\ mv.pc = "raised"

\* C2 (as stated): whenever a job that got past the band check ends, normally
\* or by a failed band, every path recorded in tempFileList has been removed.
C2_CleanupAlways ==
    (Ended /\ pc \notin {"failedMkdir", "failedNotFound"}) =>
        \A p \in Recorded : ~isfile(fs, p)

\* C2 (amended): when cogProcessor returns normally every path recorded in
\* tempFileList has been removed; when a band fails the job ends without
\* entering the cleanup loop and the base rasters of the bands published
\* before it are still in the temporary folder.
C2_CleanupOnReturn ==
    /\ pc = "done" => \A p \in Recorded : ~isfile(fs, p)
    /\ pc = "failedBand" =>
          /\ ci = 0
          /\ \A j \in 1..(idx - 1) :
                status[j] = "Published" =>
                    tiffFile(j) \in Recorded /\ isfile(fs, tiffFile(j))

C2_Witness ==
    /\ pc = "done"
    /\ cfg.cogOverviews
    /\ Len(tempFileList) = 2 * NBands
    /\ NBands = 2

\* C3: a band reached with overwrite disabled and a file at its output path
\* (the path is built from the input file name, which parses) ends Skipped
\* in one step that runs no command, records no temp file, does not call
\* _safeMove and leaves every file as it is; no step is ever logged for a
\* Skipped band.
C3_SkipLeavesNoTrace ==
    /\ [](\A i \in 1..NBands : status[i] = "Skipped" => StepsOfBand(i) = {})
    /\ [][(/\ pc = "loop"
           /\ idx <= NBands
           /\ Unpack(cfg.inFile, cfg.hasTimeIndex).err = "none"
           /\ ~cfg.overwriteExistingFiles
           /\ fs[cogPath(idx)] # NoFile)
          => (/\ status' = [status EXCEPT ![idx] = "Skipped"]
              /\ pc' = "loop"
              /\ idx' = idx + 1
              /\ fs' = fs
              /\ tempFileList' = tempFileList
              /\ log' = log
              /\ mv' = mv)]_vars

C3_Witness ==
    /\ pc = "done"
    /\ NBands = 2
    /\ status[1] = "Published"
    /\ status[2] = "Skipped"

AllPublishedBefore ==
    /\ Len(prevStatus) = NBands
    /\ \A i \in 1..NBands : prevStatus[i] = "Published"

\* C4: after a first run with overwrite disabled in which every band was
\* Published, the second run of the same configuration skips every band,
\* runs no command, does not fail (when there is a band at all), and leaves
\* every output file exactly as the first run published it.
C4_SecondRunSkipsAll ==
    (second /\ ~cfg.overwriteExistingFiles /\ AllPublishedBefore) =>
        /\ log = <<>>
        /\ tempFileList = <<>>
        /\ NBands > 0 => pc \notin FailedPcs
        /\ \A i \in 1..NBands :
              /\ status[i] \in {"Pending", "Skipped"}
              /\ pc = "done" => status[i] = "Skipped"
              /\ fs[cogPath(i)] = fs0[cogPath(i)]
              /\ fs[cogPath(i)].run = 1
              /\ fs[cogPath(i)].complete

C4_Witness ==
    /\ second
    /\ ~cfg.overwriteExistingFiles
    /\ AllPublishedBefore
    /\ NBands = 2
    /\ pc = "done"

HasContent(file, of) == file # NoFile /\ Content(file) = Content(of)

\* C5 (as stated): a reader of dst during _safeMove sees the complete prior
\* file (or no file when there was none) or the complete new file.
C5_ReaderSeesPriorOrNew ==
    observed = mv.dst0 \/ HasContent(observed, mv.src0)

\* C5 (amended): a reader of dst during _safeMove never sees a partly written
\* file: it sees the complete prior file, the complete new file, or - between
\* os.remove(dst) and os.rename - no file at all.
C5_ReaderNeverPartial ==
    \/ observed = NoFile
    \/ observed = mv.dst0 /\ observed.complete
    \/ HasContent(observed, mv.src0) /\ observed.complete

C5_Witness ==
    /\ mv.dst0 # NoFile
    /\ HasContent(observed, mv.src0)

\* C6 (as stated): when a step of _safeMove fails, dst is as it was before
\* the call.
C6_FailureKeepsDst ==
    mv.pc = "raised" => fs[mv.dst] = mv.dst0

\* C6 (amended): when a step of _safeMove fails the call fails and src is
\* kept; dst is as it was before the call when the failing step is the removal
\* of the stale temp file, the copy or the removal of dst; dst is absent when
\* the rename fails; dst holds the complete new content when chmod or the
\* removal of src fails.  The complete temp-file copy is left behind when the
\* removal of dst or the rename fails.
C6_FailureByStep ==
    mv.pc = "raised" =>
        /\ fs[mv.src] = mv.src0
        /\ mv.failedAt \in {"removeTmp", "copy", "copyWrite", "removeDst"}
              => fs[mv.dst] = mv.dst0
        /\ mv.failedAt = "rename" => fs[mv.dst] = NoFile
        /\ mv.failedAt \in {"chmod", "removeSrc"}
              => /\ HasContent(fs[mv.dst], mv.src0) /\ fs[mv.dst].complete
                 /\ fs[<<"temp", mv.dst[2]>>] = NoFile
        /\ mv.failedAt \in {"removeDst", "rename"}
              => fs[<<"temp", mv.dst[2]>>] = mv.src0

C6_Witness ==
    /\ mv.pc = "raised"
    /\ mv.failedAt = "rename"
    /\ mv.dst0 # NoFile

\* C7: after a _safeMove in which no step fails, dst holds exactly the content
\* src had at the call, with permissions mod, src is gone and no file is left
\* at dst+'.temp'.
C7_MoveSucceeds ==
    mv.pc = "done" =>
        /\ HasContent(fs[mv.dst], mv.src0)
        /\ fs[mv.dst].complete
        /\ fs[mv.dst].mode = mv.mod
        /\ fs[mv.src] = NoFile
        /\ fs[<<"temp", mv.dst[2]>>] = NoFile

C7_Witness ==
    /\ mv.pc = "done"
    /\ mv.dst0 # NoFile
    /\ mv.mod = "0o600"

\* C8 (as stated): whenever an attempt fails and the directory exists
\* afterwards, _safeMakeDirs returns success, on the last attempt too.
C8_NeverRaisesWhenDirExists ==
    mk.pc = "raised" => ~mk.existsAtRaise

\* C8 (amended): on every attempt but the last one (attempts > 1), a failed
\* attempt is followed by the sleep and, when the directory exists after it,
\* by a successful return; on the last attempt (attempts = 1) the exception
\* is raised without looking at the directory.
C8_ToleratesBeforeLastAttempt ==
    [][/\ (mk.pc = "except" /\ mk.attempts > 1) => mk'.pc \in {"except", "sleep"}
       /\ (mk.pc = "except" /\ mk.attempts = 1) => mk'.pc \in {"except", "raised"}
       /\ mk.pc = "sleep" => mk'.pc \in {"sleep", "isdir"}
       /\ (mk.pc = "isdir" /\ dirs[mk.directory]) => mk'.pc \in {"isdir", "done"}]_vars

C8_Witness ==
    /\ mk.pc = "done"
    /\ mk.tries >= 1
    /\ mk.failed = mk.tries
    /\ mk.given > mk.tries

\* C9: for attempts >= 1 _safeMakeDirs terminates, tries os.makedirs at most
\* attempts times with one sleep between consecutive tries, and raises only
\* after attempts failed tries, the exception being that of the last try.
C9_BoundedRetry ==
    /\ [](/\ mk.tries <= mk.given
          /\ mk.sleeps <= mk.tries
          /\ mk.sleeps >= mk.tries - 1
          /\ mk.pc = "try" => mk.sleeps = mk.tries
          /\ mk.pc = "raised" =>
                /\ mk.tries = mk.given
                /\ mk.failed = mk.given
                /\ mk.raisedExc = mk.given)
    /\ <>(mk.pc \in {"done", "raised"})

C9_Witness ==
    /\ mk.pc = "raised"
    /\ mk.given = MaxAttempts
    /\ mk.sleeps = MaxAttempts - 1

AbsentBandRequested == \E i \in 1..NBands : bands[i].inBand \notin bandLst

\* C10: when some band request, at any position, names a band absent from
\* the source container, the job never enters the band loop: no command is
\* run, no temp file is recorded, no file is created, published or replaced,
\* and once the check is reached the job has failed.
C10_MissingBandFailsUpFront ==
    AbsentBandRequested =>
        /\ pc \in {"start", "mkOut", "tmpFolder", "mkTmp", "check",
                   "failedMkdir", "failedNotFound"}
        /\ log = <<>>
        /\ tempFileList = <<>>
        /\ fs = fs0
        /\ mv.pc = "idle"
        /\ status = Pending

C10_Witness ==
    /\ pc = "failedNotFound"
    /\ NBands = 2
    /\ bands[1].inBand \in bandLst
    /\ bands[2].inBand \notin bandLst

IsPrefix(a, b) == Len(a) <= Len(b) /\ SubSeq(b, 1, Len(a)) = a

\* the steps of one band that is not skipped, in the order the claim gives
BandSeq(i) ==
    <<<<"extract", i>>>>
    \o (IF cfg.cogOverviews THEN <<<<"clean", i>>, <<"build", i>>>> ELSE <<>>)
    \o <<<<"meta", i>>, <<"encode", i>>, <<"move", i>>>>

RECURSIVE PublishedSeq(_)
PublishedSeq(n) ==
    IF n = 0 THEN <<>>
    ELSE PublishedSeq(n - 1) \o (IF status[n] = "Published" THEN BandSeq(n) ELSE <<>>)

\* C11: the steps run by a job are, in configuration order, the whole
\* sequence extract, (clean, build when there are overview levels), metadata,
\* encode, publish of every Published band, followed by a beginning of that
\* sequence for the band in progress or Failed; a Skipped band has no step;
\* a step of a band is run only when every band before it is Published,
\* Skipped or Failed.
C11_StepsInOrder ==
    LET done == PublishedSeq(NBands)
        rest == SubSeq(log, Len(done) + 1, Len(log))
    IN  /\ IsPrefix(done, log)
        /\ rest # <<>> =>
              /\ idx \in 1..NBands
              /\ status[idx] \in {"Pending", "Failed"}
              /\ IsPrefix(rest, BandSeq(idx))
        /\ \A k \in 1..Len(log) :
              \A j \in 1..(log[k][2] - 1) : status[j] \in Terminal
        /\ \A i \in 1..NBands :
              status[i] = "Published" =>
                  \A k \in 1..Len(BandSeq(i)) :
                      \E l \in 1..Len(log) : log[l] = BandSeq(i)[k]

C11_Witness ==
    /\ pc = "done"
    /\ cfg.cogOverviews
    /\ NBands = 2
    /\ status = <<"Published", "Published">>
    /\ Len(log) = 12


-----------------------------------------------------------------------------
(* Product names *)

Parsed == nm.pc \in {"unpacked", "raised", "done"}
Accepted == nm.pc \in {"unpacked", "done"}
Stem == Splitext(nm.inFile)[1]
Segs == Split(Stem, "_")
HyphenParts == Split(Segs[3], "-")
Tiff == <<".", "t", "i", "f", "f">>

\* C12: for a 7-segment name, (1 part, no time index) gives neither
\* subProduct nor timeIndex; (2 parts, time index) gives timeIndex = part[1]
\* only; (2 parts, no time index) gives subProduct = part[1] only; (3 parts,
\* time index) gives subProduct = part[1] and timeIndex = part[2]; every other
\* combination fails with the grammar error.
C12_GrammarTable ==
    (Parsed /\ Len(Segs) = 7) =>
        LET n == Len(HyphenParts)
            h == nm.hasTimeIndex
            e == nm.elements
        IN  /\ (n = 1 /\ ~h) => /\ Accepted
                                /\ e.subProduct = NoneStr
                                /\ e.timeIndex = NoneStr
            /\ (n = 2 /\ h) => /\ Accepted
                               /\ e.subProduct = NoneStr
                               /\ e.timeIndex = HyphenParts[2]
            /\ (n = 2 /\ ~h) => /\ Accepted
                                /\ e.subProduct = HyphenParts[2]
                                /\ e.timeIndex = NoneStr
            /\ (n = 3 /\ h) => /\ Accepted
                               /\ e.subProduct = HyphenParts[2]
                               /\ e.timeIndex = HyphenParts[3]
            /\ ((n = 1 /\ h) \/ (n = 3 /\ ~h) \/ n >= 4) =>
                   nm.pc = "raised" /\ e.err = "ValueError"

C12_Witness ==
    /\ nm.pc = "raised"
    /\ Len(Segs) = 7
    /\ Len(HyphenParts) = 1
    /\ nm.hasTimeIndex
    /\ nm.elements.err = "ValueError"

\* C13 (as stated): every name whose stem does not split into exactly 7
\* segments fails with the grammar error, and with no other error.
C13_NotSevenFailsWithGrammarError ==
    (Parsed /\ Len(Segs) # 7) =>
        nm.pc = "raised" /\ nm.elements.err = "ValueError"

\* C13 (amended): a stem of fewer than 7 segments fails with an IndexError; a
\* stem of more than 7 segments is parsed as its first 7 segments alone, the
\* further segments being ignored.
C13_FewerFailMoreIgnored ==
    Parsed =>
        /\ Len(Segs) < 7 => nm.pc = "raised" /\ nm.elements.err = "IndexError"
        /\ Len(Segs) > 7 =>
              /\ nm.elements.err # "IndexError"
              /\ [nm.elements EXCEPT !.parameter = NoneStr] = Unpack(
                        Join(SubSeq(Segs, 1, 7), "_")
                        \o Splitext(nm.inFile)[2], nm.hasTimeIndex)
              /\ Accepted <=>
                    \/ Len(HyphenParts) = 1 /\ ~nm.hasTimeIndex
                    \/ Len(HyphenParts) = 2
                    \/ Len(HyphenParts) = 3 /\ nm.hasTimeIndex

C13_Witness ==
    /\ nm.pc = "done"
    /\ Len(Segs) = 8
    /\ Len(HyphenParts) = 2

\* the name built from its fields
NameOf(fields, tagParts) ==
    Join(<<fields[1], fields[2], Join(tagParts, "-"), fields[4], fields[5],
           fields[6], fields[7]>>, "_") \o Tiff

Opt(include, x) == IF include THEN <<x>> ELSE <<>>

Given(x) == x # NoneStr /\ x # <<>>

\* C14 (as stated): the output name is
\* project_product[-subProduct]-parameter[-timeIndex]_date_roi_sensor_version.tiff
\* with subProduct and timeIndex included exactly when the parse produced
\* them, and parameter the output band when given, else the input band.
C14_TagIncludesWhatParseProduced ==
    nm.pc = "done" =>
        LET e == nm.elements
        IN  nm.cogFile =
                NameOf(Segs,
                       <<HyphenParts[1]>>
                       \o Opt(e.subProduct # NoneStr, e.subProduct)
                       \o <<IF Given(nm.outBand) THEN nm.outBand ELSE nm.inBand>>
                       \o Opt(e.timeIndex # NoneStr, e.timeIndex))

\* C14 (amended): the same, with subProduct and timeIndex included exactly
\* when the parse produced a non-empty one; an empty sub-product or time index
\* is left out together with its hyphen.
C14_TagIncludesNonEmpty ==
    nm.pc = "done" =>
        LET e == nm.elements
        IN  nm.cogFile =
                NameOf(Segs,
                       <<HyphenParts[1]>>
                       \o Opt(Given(e.subProduct), e.subProduct)
                       \o <<IF Given(nm.outBand) THEN nm.outBand ELSE nm.inBand>>
                       \o Opt(Given(e.timeIndex), e.timeIndex))

C14_Witness ==
    /\ nm.pc = "done"
    /\ nm.outBand = <<"O">>
    /\ nm.elements.subProduct = <<"P">>
    /\ nm.elements.timeIndex = <<>>
    /\ nm.inFile[Len(nm.inFile)] = "c"

\* the output name taken apart again
OutStem == SubSeq(nm.cogFile, 1, Len(nm.cogFile) - Len(Tiff))
OutSegs == Split(OutStem, "_")
OutParts == Split(OutSegs[3], "-")
OtherFieldsKept ==
    /\ SubSeq(nm.cogFile, Len(nm.cogFile) - Len(Tiff) + 1, Len(nm.cogFile)) = Tiff
    /\ Len(OutSegs) = 7
    /\ \A i \in {1, 2, 4, 5, 6, 7} : OutSegs[i] = Segs[i]
Band == nm.elements.parameter

\* the hyphen parts with the band put before the time index, or last
WithBand(parts, hasTimeIndex) ==
    IF hasTimeIndex
    THEN SubSeq(parts, 1, Len(parts) - 1) \o <<Band>> \o <<parts[Len(parts)]>>
    ELSE parts \o <<Band>>

\* C15 (as stated): for a 7-segment name accepted by the grammar table,
\* whatever its hyphen parts (empty ones included), the packed name holds the
\* six other fields and every hyphen part unchanged and in order, the band
\* name and the .tiff extension being the only differences.
C15_RoundTripAnyParts ==
    (nm.pc = "done" /\ Len(Segs) = 7) =>
        /\ OtherFieldsKept
        /\ OutParts = WithBand(HyphenParts, nm.hasTimeIndex)

\* C15 (amended): the same when the second and third hyphen parts are not
\* empty; an empty second or third part disappears from the packed name
\* together with its hyphen, the other parts and fields being kept in order.
C15_RoundTripNonEmptyParts ==
    (nm.pc = "done" /\ Len(Segs) = 7) =>
        LET kept == {i \in 1..Len(HyphenParts) : i = 1 \/ HyphenParts[i] # <<>>}
        IN  /\ OtherFieldsKept
            /\ kept = 1..Len(HyphenParts) =>
                   OutParts = WithBand(HyphenParts, nm.hasTimeIndex)
            /\ Len(OutParts) = Cardinality(kept) + 1
            /\ \A i \in kept : \E k \in 1..Len(OutParts) :
                   /\ OutParts[k] = HyphenParts[i]
                   /\ k >= Cardinality({j \in kept : j <= i})

C15_Witness ==
    /\ nm.pc = "done"
    /\ Len(Segs) = 7
    /\ nm.hasTimeIndex
    /\ HyphenParts = <<<<>>, <<"P">>, <<"Q">>>>


-----------------------------------------------------------------------------
(* The product name in the job *)

Rejected == Unpack(cfg.inFile, cfg.hasTimeIndex).err # "none"
NothingDone ==
    /\ log = <<>>
    /\ tempFileList = <<>>
    /\ fs = fs0
    /\ \A i \in 1..NBands : status[i] = "Pending"

\* C16 (as stated): a job whose input file name the parser rejects fails with
\* the parser's error, whatever the band list (the empty one included), and
\* runs no command, records no temp file and publishes nothing.
C16_RejectedNameFailsAnyBandList ==
    (Rejected /\ Ended /\ pc # "failedMkdir") =>
        pc = "failedName" /\ NothingDone

\* C16 (amended): the name is parsed for the first band inside the band loop.
\* A job with a rejected name runs no command, records no temp file and
\* publishes nothing; once the folders exist it fails with the not-found
\* error when a requested band is absent, succeeds when the band list is
\* empty, and fails with the parser's error at the first band otherwise.
C16_RejectedNameFailsAtFirstBand ==
    Rejected =>
        /\ NothingDone
        /\ pc = "failedName" => idx = 1
        /\ (Ended /\ pc # "failedMkdir") =>
              pc = IF AbsentBandRequested THEN "failedNotFound"
                   ELSE IF NBands = 0 THEN "done"
                   ELSE "failedName"

C16_Witness ==
    /\ pc = "failedName"
    /\ NBands = 2
    /\ ~second
    /\ Unpack(cfg.inFile, cfg.hasTimeIndex).err = "ValueError"
    /\ isfile(fs, <<"cog", "b1">>)

-----------------------------------------------------------------------------
(* Files at the final paths *)

\* the file was written whole by the final encode of a band whose output
\* name is n, in this run or an earlier one
CompleteOutput(file, n) ==
    /\ file.kind = "cog"
    /\ file.complete
    /\ file.name = n
    /\ \/ file.run < Run
       \/ /\ file.run = Run
          /\ file.band \in 1..NBands
          /\ Parameter(bands[file.band]) = n
          /\ \E k \in 1..Len(log) : log[k] = <<"encode", file.band>>

\* C18: in every state of a job, the states left by a failure included, a
\* file at a final output path is a complete output of the final encode for
\* that path; no intermediate or partly written raster is ever there.
C18_FinalPathHoldsCompleteOutput ==
    \A n \in Names :
        isfile(fs, <<"cog", n>>) => CompleteOutput(fs[<<"cog", n>>], n)

C18_Witness ==
    /\ pc = "failedBand"
    /\ idx = 2
    /\ isfile(fs, <<"cog", "b1">>) /\ fs[<<"cog", "b1">>].run = Run
    /\ isfile(fs, <<"cogTmp", "b2">>) /\ ~fs[<<"cogTmp", "b2">>].complete


-----------------------------------------------------------------------------
(* Two publishers of one dst *)

Other(i) == IF i = "A" THEN "B" ELSE "A"
BothEnded == \A i \in Movers : pub.at[i] \in {"done", "raised"}
BothReturned == \A i \in Movers : pub.at[i] = "done"
LastRenamer == pub.order[Len(pub.order)]

\* C17 (as stated): whatever the interleaving of two _safeMove calls on one
\* dst, once both have ended dst exists and holds the complete content of the
\* source of the call that renamed last.
C17_LastRenamerWins ==
    (pub.pc = "run" /\ BothEnded) =>
        /\ pub.order # <<>>
        /\ pub.dst # Absent
        /\ pub.data[pub.dst] = SrcOf(LastRenamer)

\* C17 (amended): when both calls return without raising, dst exists and
\* holds the complete content of the source of the call that renamed last,
\* and both sources and dst+'.temp' are gone; a call that does not return
\* raised on a file the other call had removed or renamed away.
C17_LastRenamerWinsWhenBothReturn ==
    pub.pc = "run" =>
        /\ BothReturned =>
              /\ Len(pub.order) = 2
              /\ pub.dst # Absent
              /\ pub.data[pub.dst] = SrcOf(LastRenamer)
              /\ pub.tmp = Absent
              /\ \A i \in Movers : ~pub.src[i]
        /\ \A i \in Movers : pub.at[i] = "raised" =>
              /\ pub.failedAt[i] \in {"removeTmp", "copyMode", "removeDst",
                                      "rename", "chmod"}
              /\ pub.src[i]
              /\ pub.at[Other(i)] # "isfileTmp"

C17_Witness ==
    /\ pub.pc = "run"
    /\ BothReturned
    /\ pub.order = <<"A", "B">>
    /\ pub.dst = "inoB"
    /\ pub.dst0 = "inoPrior"
    /\ pub.tmp0 = "inoStale"


-----------------------------------------------------------------------------
(* Attribute conversion *)

AtEnded == at.pc \in {"returned", "raised"}
IsKept(item) == item[1] \notin at.removeAttributeLst

\* the items whose key is not in the removal list, in their order
KeptItems == SelectSeq(at.attributeDict, IsKept)
KeysOf(items) == [k \in 1..Len(items) |-> items[k][1]]

\* the elements joined with the separator, wrapped by an enclosure of two
\* characters
Serialized(value) ==
    LET joined == JoinWith([k \in 1..Len(value.nums) |-> ToStr(value.nums[k])],
                           at.listSeparator)
    IN  IF Len(at.listEnclosure) = 2
        THEN <<at.listEnclosure[1]>> \o joined \o <<at.listEnclosure[2]>>
        ELSE joined

\* C19: _convertBandAttributes drops the keys of the removal list, replaces
\* each kept array value by its elements joined with listSeparator, wrapped
\* in listEnclosure[0]..listEnclosure[1] when listEnclosure has 2 characters
\* and left unwrapped when it is empty, fails with ValueError when such a
\* value meets a listEnclosure of another length, passes scalar values
\* through unchanged and preserves the key order.
C19_ListSerialization ==
    (at.pc # "idle" /\ at.fn = "band" /\ AtEnded) =>
        LET arrayKept == \E k \in 1..Len(KeptItems) :
                            KeptItems[k][2].kind = "ndarray"
            otherLength == Len(at.listEnclosure) \notin {0, 2}
        IN  /\ at.pc = "raised" <=> (arrayKept /\ otherLength)
            /\ at.pc = "raised" => at.err = "ValueError"
            /\ at.pc = "returned" =>
                  /\ KeysOf(at.metadata) = KeysOf(KeptItems)
                  /\ \A k \in 1..Len(KeptItems) :
                        at.metadata[k][2] =
                            IF KeptItems[k][2].kind = "ndarray"
                            THEN Scalar(Serialized(KeptItems[k][2]))
                            ELSE KeptItems[k][2]

C19_Witness ==
    /\ at.pc = "returned"
    /\ at.fn = "band"
    /\ at.listEnclosure = <<"[", "]">>
    /\ at.listSeparator = <<",", " ">>
    /\ at.removeAttributeLst = {"units"}
    /\ at.metadata = <<<<"valid_range", Scalar(<<"[", "1", ",", " ", "1", "2", "]">>)>>,
                       <<"flag_values", Scalar(<<"[", "-", "3", "]">>)>>>>

IdentifierProcessed ==
    \E k \in 1..Len(KeptItems) : KeptItems[k][1] = "identifier"
ParentPresent ==
    \E k \in 1..Len(at.attributeDict) :
        at.attributeDict[k][1] = "parent_identifier"
ParentValue ==
    at.attributeDict[CHOOSE k \in 1..Len(at.attributeDict) :
                        at.attributeDict[k][1] = "parent_identifier"][2].str
NotPrefix(item) == item # Prefix

\* the file name stem without a leading 'c_gls_'
StemWithoutPrefix ==
    Concat(IF at.items[1] = Prefix THEN Tail(at.items) ELSE at.items)

\* the file name stem without any 'c_gls_'
StemWithoutAnyPrefix == Concat(SelectSeq(at.items, NotPrefix))

\* the keys are those kept, in order, and every key other than 'history' and
\* 'identifier' has its input value
OthersPassThrough ==
    /\ KeysOf(at.metadata) = KeysOf(KeptItems)
    /\ \A k \in 1..Len(KeptItems) :
          KeptItems[k][1] \notin {"history", "identifier"} =>
              at.metadata[k][2] = KeptItems[k][2]

IdentifierIs(id) ==
    \A k \in 1..Len(KeptItems) :
        KeptItems[k][1] = "identifier" =>
            at.metadata[k][2] = Scalar(ParentValue \o <<":">> \o id)

\* C20 (as stated): _convertFileAttributes fails when 'identifier' is
\* processed and 'parent_identifier' is absent from the input; otherwise the
\* identifier becomes '<parent_identifier>:<stem without the prefix c_gls_>',
\* removed keys are dropped and the keys other than 'history' pass through
\* unchanged and in order.
C20_IdentifierDropsPrefix ==
    (at.pc # "idle" /\ at.fn = "file" /\ AtEnded) =>
        /\ at.pc = "raised" <=> (IdentifierProcessed /\ ~ParentPresent)
        /\ at.pc = "returned" =>
              OthersPassThrough /\ IdentifierIs(StemWithoutPrefix)

\* C20 (amended): the same, the identifier being
\* '<parent_identifier>:<stem with every occurrence of c_gls_ removed>';
\* the failure is a KeyError, and 'parent_identifier' is read from the input
\* mapping even when it is in the removal list.
C20_IdentifierDropsEveryOccurrence ==
    (at.pc # "idle" /\ at.fn = "file" /\ AtEnded) =>
        /\ at.pc = "raised" <=> (IdentifierProcessed /\ ~ParentPresent)
        /\ at.pc = "raised" => at.err = "KeyError"
        /\ at.pc = "returned" =>
              OthersPassThrough /\ IdentifierIs(StemWithoutAnyPrefix)

C20_Witness ==
    /\ at.pc = "returned"
    /\ at.fn = "file"
    /\ at.items = <<<<"x">>, Prefix, <<"V", ".", "1">>>>
    /\ "parent_identifier" \in at.removeAttributeLst
    /\ at.metadata = <<<<"title", Scalar(<<"title">>)>>,
                       <<"identifier",
                         Scalar(<<"parent_identifier", ":", "x", "V", ".", "1">>)>>>>


-----------------------------------------------------------------------------
(* One hyphen part with a time index *)

OnePartWithTimeIndex ==
    /\ Parsed
    /\ Len(Segs) >= 3
    /\ Len(HyphenParts) = 1
    /\ nm.hasTimeIndex

\* C21 (as stated): a name whose third segment has exactly 1 hyphen part,
\* parsed with hasTimeIndex = true, is accepted: the parse succeeds with
\* neither subProduct nor timeIndex.
C21_OnePartTimeIndexAccepted ==
    OnePartWithTimeIndex =>
        /\ Accepted
        /\ nm.elements.subProduct = NoneStr
        /\ nm.elements.timeIndex = NoneStr

\* C21 (amended): such a name is rejected: the parse raises the ValueError of
\* the grammar table (an IndexError when the name has fewer than 7 segments),
\* yields no elements, and no output name is built.
C21_OnePartTimeIndexRejected ==
    OnePartWithTimeIndex =>
        /\ nm.pc = "raised"
        /\ nm.elements.err = IF Len(Segs) >= 7 THEN "ValueError" ELSE "IndexError"
        /\ nm.elements = [NoElements EXCEPT !.err = nm.elements.err]
        /\ nm.cogFile = <<>>

C21_Witness ==
    /\ nm.pc = "raised"
    /\ Len(Segs) = 8
    /\ HyphenParts = <<<<"P">>>>
    /\ nm.hasTimeIndex
    /\ nm.outBand = <<"O">>
    /\ nm.elements.err = "ValueError"


-----------------------------------------------------------------------------
(* The temp-file list *)

AllPublishedOrSkipped ==
    /\ NBands > 0
    /\ \A i \in 1..NBands : status[i] \in {"Published", "Skipped"}

\* C22: tempFileList never holds the same path twice, and a job in which
\* every band ended Published or Skipped (two requests for one output band
\* name, overwrite enabled, included) ends without error.
C22_TempFilesDistinctJobCompletes ==
    /\ \A a, b \in 1..Len(tempFileList) :
          a # b => tempFileList[a] # tempFileList[b]
    /\ (Ended /\ AllPublishedOrSkipped) => pc = "done"

\* two requests for the output band name b1, both Published, and the cleanup
\* loop failed on the base raster it had already removed
C22_Witness ==
    /\ pc = "failedCleanup"
    /\ ~second
    /\ cfg.overwriteExistingFiles
    /\ ~cfg.cogOverviews
    /\ bands = <<[inBand |-> "b1", outBand |-> None],
                 [inBand |-> "b2", outBand |-> "b1"]>>
    /\ status = <<"Published", "Published">>
    /\ tempFileList = <<<<"base", "b1">>, <<"base", "b1">>>>
    /\ ci = 2
    /\ ~isfile(fs, <<"base", "b1">>)
    /\ isfile(fs, <<"cog", "b1">>) /\ fs[<<"cog", "b1">>].band = 2

====
